---- MODULE Spec2Model ----
(***************************************************************************)
(* A model of the Lunar Lander web app: the Lander class (src/lander.js),  *)
(* the Game controller and its input handlers (src/game.js).               *)
(*                                                                         *)
(* Numbers.  The program computes in IEEE doubles; the model computes in   *)
(* fixed point:                                                            *)
(*   - lengths in millimetres, velocities in mm/s, accelerations in mm/s^2 *)
(*     (1.62 m/s^2 is 1620),                                               *)
(*   - time steps dt in tenths of a second (0.1 s is 1),                   *)
(*   - fuel and mass in tenths of a unit (1000 units is 10000),            *)
(*   - terrain heights in 1/100000 of the canvas height (0.2 is 20000),    *)
(*   - pixels in thousandths of a pixel.                                   *)
(* A product x * dt is therefore x * dt / 10, rounded to the nearest unit. *)
(***************************************************************************)
EXTENDS Integers, Sequences, FiniteSets, TLC

VARIABLES
    lander,     \* the Lander instance (all of its fields, as a record)
    game,       \* the Game instance's own fields
    env,        \* the page: which controls are held, whether the loop is paused
    last,       \* the call or event that produced the current state
    attempt,    \* bookkeeping of the current attempt: counters that bound a
                \* run of the model, the level and fuel it started with
    twin,       \* a second Lander instance, for the comparisons of two
                \* craft that the unit tests make (heavy / light)
    web         \* the server process (server.js): its module constants, the
                \* tokens it has handed out, what a client remembers of an
                \* earlier exchange

vars == <<lander, game, env, last, attempt, twin, web>>

----------------------------------------------------------------------------
(* Arithmetic helpers.                                                     *)

Abs(x) == IF x < 0 THEN -x ELSE x
Max(a, b) == IF a >= b THEN a ELSE b
Min(a, b) == IF a <= b THEN a ELSE b

\* a / b rounded to the nearest integer, halves away from zero (b > 0).
RoundDiv(a, b) ==
    IF a >= 0 THEN (a + b \div 2) \div b
              ELSE -(((-a) + b \div 2) \div b)

\* x * dt with dt in tenths of a second.
TimesDt(x, dt) == RoundDiv(x * dt, 10)

----------------------------------------------------------------------------
(* src/lander.js                                                           *)

maxAltitude == 100000        \* LANDER_CONFIG.maxAltitude = 100.0 m
DEFAULT_DRY_MASS == 10000    \* 1000 units
VelocityLimit == 1000000     \* Math.abs(verticalVelocity) > 1000

\* Mutant: reset leaves the thruster flags and the anomaly flag as they are.
reset_keepsFlags(l, startFuel) ==
    [l EXCEPT !.altitude = maxAltitude,
              !.verticalVelocity = 0,
              !.horizontalPosition = l.maxRange \div 2,
              !.horizontalVelocity = 0,
              !.fuel = startFuel,
              !.mass = l.dryMass + startFuel,
              !.fullMass = l.dryMass + startFuel]

\* reset(startFuel)
reset(l, startFuel) ==
    [l EXCEPT !.altitude = maxAltitude,
              !.verticalVelocity = 0,
              !.horizontalPosition = l.maxRange \div 2,
              !.horizontalVelocity = 0,
              !.fuel = startFuel,
              !.mass = l.dryMass + startFuel,
              !.fullMass = l.dryMass + startFuel,
              !.upThruster = FALSE,
              !.leftThruster = FALSE,
              !.rightThruster = FALSE,
              !.anomaly = FALSE]

\* constructor(maxRange): the fields as they are after `new Lander(maxRange)`.
NewLander(maxRange) ==
    reset([maxRange |-> maxRange, dryMass |-> DEFAULT_DRY_MASS,
           fullMass |-> DEFAULT_DRY_MASS, mass |-> DEFAULT_DRY_MASS,
           altitude |-> 0, verticalVelocity |-> 0,
           horizontalPosition |-> 0, horizontalVelocity |-> 0, fuel |-> 0,
           upThruster |-> FALSE, leftThruster |-> FALSE,
           rightThruster |-> FALSE, anomaly |-> FALSE], 0)

\* Mutant: the main thruster starts even with an empty tank.
startUp_noFuelCheck(l) == [l EXCEPT !.upThruster = TRUE]

startUp(l) == IF l.fuel > 0 THEN [l EXCEPT !.upThruster = TRUE] ELSE l
stopUp(l) == [l EXCEPT !.upThruster = FALSE]
\* Mutant: a second startLeft() switches the thruster off again.
startLeft_toggle(l) == IF l.fuel > 0 THEN [l EXCEPT !.leftThruster = ~@] ELSE l

startLeft(l) == IF l.fuel > 0 THEN [l EXCEPT !.leftThruster = TRUE] ELSE l
stopLeft(l) == [l EXCEPT !.leftThruster = FALSE]
startRight(l) == IF l.fuel > 0 THEN [l EXCEPT !.rightThruster = TRUE] ELSE l
stopRight(l) == [l EXCEPT !.rightThruster = FALSE]

Thrusters == {"up", "left", "right"}
start(l, t) ==
    CASE t = "up" -> startUp(l) [] t = "left" -> startLeft(l)
      [] OTHER -> startRight(l)
stop(l, t) ==
    CASE t = "up" -> stopUp(l) [] t = "left" -> stopLeft(l)
      [] OTHER -> stopRight(l)
Flag(l, t) ==
    CASE t = "up" -> l.upThruster [] t = "left" -> l.leftThruster
      [] OTHER -> l.rightThruster

\* Mutant: the thrust does not depend on the mass.
Scaled_noMass(l, thrust) == thrust

\* thrust * massRatio, massRatio = fullMass / mass  (lander.js:68)
Scaled(l, thrust) == RoundDiv(thrust * l.fullMass, l.mass)

\* lander.js:70-81: the thrusters that fire in this call
upFires(l) == l.upThruster /\ l.fuel > 0
leftFires(l) == l.leftThruster /\ l.fuel > 0
rightFires(l) == l.rightThruster /\ l.fuel > 0
\* Mutant: fuel is debited as for a single thruster however many fire.
thrusterCount_single(l) ==
    IF upFires(l) \/ leftFires(l) \/ rightFires(l) THEN 1 ELSE 0

thrusterCount(l) ==
    (IF upFires(l) THEN 1 ELSE 0) + (IF leftFires(l) THEN 1 ELSE 0)
    + (IF rightFires(l) THEN 1 ELSE 0)

\* Mutant: the main thruster does not act on the vertical acceleration.
accelY_noThrust(l, gravity, mainThrust) == gravity

\* lander.js:63 and 70-73
accelY(l, gravity, mainThrust) ==
    gravity - (IF upFires(l) THEN Scaled(l, mainThrust) ELSE 0)
\* Mutant: with both side thrusters on, the left one alone acts.
accelX_leftWins(l, sideThrust) ==
    IF leftFires(l) THEN 0 - Scaled(l, sideThrust)
    ELSE IF rightFires(l) THEN Scaled(l, sideThrust) ELSE 0

accelX(l, sideThrust) ==
    (0 - (IF leftFires(l) THEN Scaled(l, sideThrust) ELSE 0))
    + (IF rightFires(l) THEN Scaled(l, sideThrust) ELSE 0)

\* Mutant: firing costs no fuel.
fuelAfter_free(fuel, fuelUsed) == fuel

\* Mutant: firing fills the tank.
fuelAfter_refuels(fuel, fuelUsed) == Max(fuel + fuelUsed, 0)

\* Mutant: the debit without the floor at 0.
fuelAfter_noFloor(fuel, fuelUsed) == fuel - fuelUsed

\* lander.js:86: this.fuel = Math.max(this.fuel - fuelUsed, 0)
fuelAfter(fuel, fuelUsed) == Max(fuel - fuelUsed, 0)

\* Mutant: the fuel is debited but the thrusters are left on at empty.
consumeFuel_noShutOff(l, dt) ==
    IF thrusterCount(l) > 0 /\ l.fuel > 0
    THEN LET f == fuelAfter(l.fuel, thrusterCount(l) * dt)
         IN [l EXCEPT !.fuel = f, !.mass = l.dryMass + f]
    ELSE l

\* Mutant: the fuel is debited but the mass is left as it was.
consumeFuel_staleMass(l, dt) ==
    IF thrusterCount(l) > 0 /\ l.fuel > 0
    THEN LET f == fuelAfter(l.fuel, thrusterCount(l) * dt)
             off == f <= 0
         IN [l EXCEPT !.fuel = f,
                      !.upThruster = IF off THEN FALSE ELSE @,
                      !.leftThruster = IF off THEN FALSE ELSE @,
                      !.rightThruster = IF off THEN FALSE ELSE @]
    ELSE l

\* lander.js:83-91: fuel consumption and the automatic shut-off
consumeFuel(l, dt) ==
    IF thrusterCount(l) > 0 /\ l.fuel > 0
    THEN LET f == fuelAfter(l.fuel, thrusterCount(l) * dt)
             off == f <= 0
         IN [l EXCEPT !.fuel = f,
                      !.mass = l.dryMass + f,
                      !.upThruster = IF off THEN FALSE ELSE @,
                      !.leftThruster = IF off THEN FALSE ELSE @,
                      !.rightThruster = IF off THEN FALSE ELSE @]
    ELSE l

\* Mutant: the position is moved with the velocities of before the call.
integrate_positionFirst(l, ay, ax, dt) ==
    [l EXCEPT !.verticalVelocity = @ + TimesDt(ay, dt),
              !.horizontalVelocity = @ + TimesDt(ax, dt),
              !.altitude = @ - TimesDt(l.verticalVelocity, dt),
              !.horizontalPosition = @ + TimesDt(l.horizontalVelocity, dt)]

\* lander.js:93-97: velocity first, then position with the new velocity
integrate(l, ay, ax, dt) ==
    LET vv == l.verticalVelocity + TimesDt(ay, dt)
        hv == l.horizontalVelocity + TimesDt(ax, dt)
    IN [l EXCEPT !.verticalVelocity = vv,
                 !.horizontalVelocity = hv,
                 !.altitude = l.altitude - TimesDt(vv, dt),
                 !.horizontalPosition = l.horizontalPosition + TimesDt(hv, dt)]

\* lander.js:99-105: the walls
clampHorizontal(l) ==
    IF l.horizontalPosition < 0
    THEN [l EXCEPT !.horizontalPosition = 0, !.horizontalVelocity = 0]
    ELSE IF l.horizontalPosition > l.maxRange
         THEN [l EXCEPT !.horizontalPosition = l.maxRange,
                        !.horizontalVelocity = 0]
         ELSE l

\* Mutant: the flag says whether this update was out of range.
checkAnomaly_notSticky(l) ==
    IF \/ l.altitude < 0
       \/ l.altitude > maxAltitude
       \/ Abs(l.verticalVelocity) > VelocityLimit
    THEN [l EXCEPT !.anomaly = TRUE,
                   !.altitude = Min(Max(l.altitude, 0), maxAltitude),
                   !.verticalVelocity =
                       IF Abs(l.verticalVelocity) > VelocityLimit THEN 0 ELSE @]
    ELSE [l EXCEPT !.anomaly = FALSE]

\* Mutant: the vertical velocity is zeroed in every anomaly.
checkAnomaly_zeroesAlways(l) ==
    IF \/ l.altitude < 0
       \/ l.altitude > maxAltitude
       \/ Abs(l.verticalVelocity) > VelocityLimit
    THEN [l EXCEPT !.anomaly = TRUE,
                   !.altitude = Min(Max(l.altitude, 0), maxAltitude),
                   !.verticalVelocity = 0]
    ELSE l

\* lander.js:107-119: the anomaly check (every number of the model is finite)
checkAnomaly(l) ==
    IF \/ l.altitude < 0
       \/ l.altitude > maxAltitude
       \/ Abs(l.verticalVelocity) > VelocityLimit
    THEN [l EXCEPT !.anomaly = TRUE,
                   !.altitude = Min(Max(l.altitude, 0), maxAltitude),
                   !.verticalVelocity =
                       IF Abs(l.verticalVelocity) > VelocityLimit THEN 0 ELSE @]
    ELSE l

\* Mutant: the accelerations are computed after the fuel debit, so the call
\* that empties the tank gets no thrust.
update_thrustAfterDebit(l, dt, gravity, mainThrust, sideThrust) ==
    LET c == consumeFuel(l, dt)
        ay == accelY(c, gravity, mainThrust)
        ax == accelX(c, sideThrust)
    IN checkAnomaly(clampHorizontal(integrate(c, ay, ax, dt)))

\* Lander.update(dt, gravity, mainThrust, sideThrust)
update(l, dt, gravity, mainThrust, sideThrust) ==
    LET ay == accelY(l, gravity, mainThrust)
        ax == accelX(l, sideThrust)
    IN checkAnomaly(clampHorizontal(integrate(consumeFuel(l, dt), ay, ax, dt)))

----------------------------------------------------------------------------
(* src/game.js: CONFIG and the Game class                                  *)

gravity == 1620              \* CONFIG.gravity = 1.62 m/s^2
mainThrust == 6000           \* CONFIG.mainThrust = 6.0 m/s^2
sideThrust == 3000           \* CONFIG.sideThrust = 3.0 m/s^2
maxRange == 100000           \* CONFIG.maxRange = 100.0 m
baseFuel == 10000            \* CONFIG.baseFuel = 1000 units
fuelDecrease == 2000         \* CONFIG.fuelDecrease = 200 units
gravityIncrement == 300      \* CONFIG.gravityIncrement = 0.3 m/s^2
minFuel == 1000              \* the literal 100 in restartGame
numPoints == 10              \* generateTerrain: const numPoints = 10
padCap == 20000              \* generateTerrain: the literal 0.2
safeSpeed == 2000            \* updatePhysics: the literal 2.0 m/s
canvasWidth == 360           \* the canvas, in pixels
canvasHeight == 480

\* Game.constructor
NewGame ==
    [level |-> 1, currentGravity |-> gravity, gameOver |-> FALSE,
     message |-> "", gameStarted |-> FALSE, crashed |-> FALSE,
     terrainPoints |-> <<>>,
     safeZone |-> [startRange |-> 0, endRange |-> 0, height |-> 0]]

\* Math.random() * 0.3 + 0.1, for a draw r in thousandths (0 .. 999)
randomHeight(r) == 10000 + r * 30
\* Math.floor(Math.random() * (numPoints - 2)) + 1
randomSafeIndex(r) == ((r * (numPoints - 2)) \div 1000) + 1

\* Mutant: the pad is not capped at 0.2.
flatHeightOf_noCap(h0, h1) == Min(h0, h1)

\* game.js:119-123: Math.min(terrainPoints[safeIndex], terrainPoints[safeIndex + 1], 0.2)
flatHeightOf(h0, h1) == Min(Min(h0, h1), padCap)

\* Mutant: the safe zone is reported one segment to the left of the samples
\* that are flattened.
generateTerrain_zoneShifted(g, rnd) ==
    LET raw == [k \in 1..(numPoints + 1) |-> randomHeight(rnd[k])]
        safeIndex == randomSafeIndex(rnd[numPoints + 2])
        segmentRange == maxRange \div numPoints
        flatHeight == flatHeightOf(raw[safeIndex + 1], raw[safeIndex + 2])
    IN [g EXCEPT
          !.terrainPoints =
              [k \in 1..(numPoints + 1) |->
                  IF k = safeIndex + 1 \/ k = safeIndex + 2
                  THEN flatHeight ELSE raw[k]],
          !.safeZone = [startRange |-> (safeIndex - 1) * segmentRange,
                        endRange |-> safeIndex * segmentRange,
                        height |-> flatHeight]]

\* generateTerrain(), given the outcomes rnd[1..numPoints + 2] of its calls of
\* Math.random().  JavaScript index k is index k + 1 of the sequence.
generateTerrain(g, rnd) ==
    LET raw == [k \in 1..(numPoints + 1) |-> randomHeight(rnd[k])]
        safeIndex == randomSafeIndex(rnd[numPoints + 2])
        segmentRange == maxRange \div numPoints
        flatHeight == flatHeightOf(raw[safeIndex + 1], raw[safeIndex + 2])
    IN [g EXCEPT
          !.terrainPoints =
              [k \in 1..(numPoints + 1) |->
                  IF k = safeIndex + 1 \/ k = safeIndex + 2
                  THEN flatHeight ELSE raw[k]],
          !.safeZone = [startRange |-> safeIndex * segmentRange,
                        endRange |-> (safeIndex + 1) * segmentRange,
                        height |-> flatHeight]]

\* Pixels are counted in thousandths of a pixel.
\* (horizontalPosition / CONFIG.maxRange) * canvas.width
xPixOf(l) == RoundDiv(l.horizontalPosition * canvasWidth, maxRange \div 1000)
\* canvas.height - (altitude / CONFIG.maxAltitude) * canvas.height
yPixOf(l) ==
    canvasHeight * 1000 - RoundDiv(l.altitude * canvasHeight, maxAltitude \div 1000)

\* Mutant: the index is not clamped to the last segment.
segmentIndex_noClamp(xPix, segmentWidth, numSegments) == xPix \div segmentWidth

\* game.js:138: Math.min(Math.floor(xPix / segmentWidth), numSegments - 1)
segmentIndex(xPix, segmentWidth, numSegments) ==
    Min(xPix \div segmentWidth, numSegments - 1)

\* game.js:137: canvas.width / numSegments
segmentWidthOf(points) == (canvasWidth * 1000) \div (Len(points) - 1)

\* Mutant: the weights of the two samples are exchanged.
interpolate_swapped(h0, h1, off, segmentWidth) ==
    RoundDiv(h0 * off + h1 * (segmentWidth - off), segmentWidth)

\* game.js:139 and 142: h0 * (1 - t) + h1 * t with t = off / segmentWidth
interpolate(h0, h1, off, segmentWidth) ==
    RoundDiv(h0 * (segmentWidth - off) + h1 * off, segmentWidth)

\* game.js:140-141: the JavaScript indices of the samples that are read
terrainReads(points, xPix) ==
    LET i == segmentIndex(xPix, segmentWidthOf(points), Len(points) - 1)
    IN {i, i + 1}

\* game.js:139-142: the interpolated height
heightNorm(points, xPix) ==
    LET numSegments == Len(points) - 1
        segmentWidth == segmentWidthOf(points)
        i == segmentIndex(xPix, segmentWidth, numSegments)
        off == xPix - i * segmentWidth
    IN interpolate(points[i + 1], points[i + 2], off, segmentWidth)

\* getTerrainYPixel(xPix)
getTerrainYPixel(g, xPix) ==
    IF Len(g.terrainPoints) = 0 THEN canvasHeight * 1000
    ELSE canvasHeight * 1000
         - RoundDiv(heightNorm(g.terrainPoints, xPix) * canvasHeight, 100)

\* Mutant: the lander is put at altitude 0 whatever the terrain.
surfaceAltitudeOf_zero(terrainY) == 0

\* game.js:277-278: ((canvas.height - terrainY) / canvas.height) * maxAltitude
surfaceAltitudeOf(terrainY) ==
    RoundDiv((canvasHeight * 1000 - terrainY) * (maxAltitude \div 1000),
             canvasHeight)

\* Mutant: every frame counts as a touchdown.
touches_always(yPix, terrainY) == TRUE
\* Mutant: a lander exactly on the surface has not touched down.
touches_strict(yPix, terrainY) == yPix > terrainY

\* game.js:272: the touchdown test
touches(yPix, terrainY) == yPix >= terrainY

\* game.js:284-289: the three conditions of a successful landing
safeVertical(impactVertical) == Abs(impactVertical) <= safeSpeed
safeHorizontal(impactHorizontal) == Abs(impactHorizontal) <= safeSpeed
\* Mutant: the edges of the pad do not count as inside.
safePosition_strict(l, g) ==
    /\ l.horizontalPosition > g.safeZone.startRange
    /\ l.horizontalPosition < g.safeZone.endRange

safePosition(l, g) ==
    /\ l.horizontalPosition >= g.safeZone.startRange
    /\ l.horizontalPosition <= g.safeZone.endRange
\* Mutant: the vertical speed alone decides.
landedSafely_verticalOnly(l, g) == safeVertical(l.verticalVelocity)

landedSafely(l, g) ==
    /\ safeVertical(l.verticalVelocity)
    /\ safeHorizontal(l.horizontalVelocity)
    /\ safePosition(l, g)

\* Mutant: the guard does not look at gameOver.
inProgress_ignoresGameOver(g) == g.gameStarted
\* Mutant: the guard does not look at gameStarted.
inProgress_ignoresStarted(g) == ~g.gameOver

\* game.js:264: the guard of updatePhysics
inProgress(g) == g.gameStarted /\ ~g.gameOver

\* Mutant: a crash advances the level too.
judge_levelOnCrash(g, ok) ==
    IF ok
    THEN [g EXCEPT !.gameOver = TRUE, !.message = "Successful landing!",
                   !.level = @ + 1, !.crashed = FALSE]
    ELSE [g EXCEPT !.gameOver = TRUE, !.message = "Crash!", !.crashed = TRUE,
                   !.level = @ + 1]

\* Mutant: the touchdown branch drops the terrain and the pad.
judge_dropsTerrain(g, ok) ==
    IF ok
    THEN [g EXCEPT !.gameOver = TRUE, !.message = "Successful landing!",
                   !.level = @ + 1, !.crashed = FALSE,
                   !.terrainPoints = <<>>,
                   !.safeZone = [startRange |-> 0, endRange |-> 0, height |-> 0]]
    ELSE [g EXCEPT !.gameOver = TRUE, !.message = "Crash!", !.crashed = TRUE,
                   !.terrainPoints = <<>>,
                   !.safeZone = [startRange |-> 0, endRange |-> 0, height |-> 0]]

\* game.js:289-299: the outcome written by the touchdown branch
judge(g, ok) ==
    IF ok
    THEN [g EXCEPT !.gameOver = TRUE, !.message = "Successful landing!",
                   !.level = @ + 1, !.crashed = FALSE]
    ELSE [g EXCEPT !.gameOver = TRUE, !.message = "Crash!", !.crashed = TRUE]

\* Mutant: the touchdown branch empties the tank and clears the flags too.
updatePhysics_emptiesTank(l, g, dt) ==
    IF ~inProgress(g) THEN [lander |-> l, game |-> g]
    ELSE LET m == update(l, dt, g.currentGravity, mainThrust, sideThrust)
             terrainY == getTerrainYPixel(g, xPixOf(m))
         IN IF touches(yPixOf(m), terrainY)
            THEN [lander |-> [m EXCEPT !.altitude = surfaceAltitudeOf(terrainY),
                                       !.verticalVelocity = 0,
                                       !.horizontalVelocity = 0,
                                       !.fuel = 0,
                                       !.mass = m.dryMass,
                                       !.upThruster = FALSE,
                                       !.leftThruster = FALSE,
                                       !.rightThruster = FALSE],
                  game |-> judge(g, landedSafely(m, g))]
            ELSE [lander |-> m, game |-> g]

\* updatePhysics(dt): the lander and the game after the call
updatePhysics(l, g, dt) ==
    IF ~inProgress(g) THEN [lander |-> l, game |-> g]
    ELSE LET m == update(l, dt, g.currentGravity, mainThrust, sideThrust)
             terrainY == getTerrainYPixel(g, xPixOf(m))
         IN IF touches(yPixOf(m), terrainY)
            THEN [lander |-> [m EXCEPT !.altitude = surfaceAltitudeOf(terrainY),
                                       !.verticalVelocity = 0,
                                       !.horizontalVelocity = 0],
                  game |-> judge(g, landedSafely(m, g))]
            ELSE [lander |-> m, game |-> g]

\* Mutant: the starting fuel without its floor of 100 units.
startFuelFor_noFloor(level) == baseFuel - fuelDecrease * (level - 1)

\* game.js:320 and 323
startFuelFor(level) == Max(baseFuel - fuelDecrease * (level - 1), minFuel)
gravityFor(level) == gravity + gravityIncrement * (level - 1)

\* Mutant: restartGame leaves crashed as the last attempt set it.
restartGame_keepsCrashed(l, g, rnd) ==
    [lander |-> reset(l, startFuelFor(g.level)),
     game |-> generateTerrain(
                 [g EXCEPT !.currentGravity = gravityFor(g.level),
                           !.gameOver = FALSE, !.message = "",
                           !.gameStarted = TRUE], rnd)]

\* restartGame(), given the outcomes rnd of Math.random()
restartGame(l, g, rnd) ==
    [lander |-> reset(l, startFuelFor(g.level)),
     game |-> generateTerrain(
                 [g EXCEPT !.currentGravity = gravityFor(g.level),
                           !.gameOver = FALSE, !.message = "",
                           !.crashed = FALSE, !.gameStarted = TRUE], rnd)]

\* game.js:300-307, 332-339 and 457-463: the restart button is shown from a
\* touchdown to the next restart, the play button until the first restart
buttonShown(g) == ~g.gameStarted \/ g.gameOver

\* Mutant: the handler starts the thruster whatever gameOver is.
startHandler_ignoresGameOver(l, g, t) == start(l, t)

\* game.js:399-406 and 426-434: pointerdown and keydown
startHandler(l, g, t) == IF ~g.gameOver THEN start(l, t) ELSE l
\* game.js:407-413 and 436-445: pointerup / pointerout / pointercancel and keyup
stopHandler(l, t) == stop(l, t)
\* game.js:500-508: the page became hidden
stopAll(l) == stopRight(stopLeft(stopUp(l)))

\* Mutant: dt is the whole gap between the frames, without the cap.
frameDt_noCap(lastTime, gap) == IF lastTime = 0 THEN 0 ELSE gap

\* game.js:489-490: if (!lastTime) lastTime = timestamp;
\* dt = Math.min((timestamp - lastTime) / 1000, 0.1), for a frame that comes
\* `gap` tenths of a second after the last one
frameDt(lastTime, gap) == IF lastTime = 0 THEN 0 ELSE Min(gap, 1)

----------------------------------------------------------------------------
(* server.js: the /config and /validate endpoints.                         *)
(*                                                                         *)
(* A JavaScript value carried by a JSON body is a record: type is what     *)
(* typeof gives ("null" for null), num is a number in thousandths, inf is  *)
(* 1 / -1 for Infinity / -Infinity (JSON.parse("1e999") is Infinity; JSON  *)
(* carries no NaN), str is the text of a string as a tuple of pieces.      *)

Undefined == [type |-> "undefined", num |-> 0, inf |-> 0, str |-> <<>>]
Null == [type |-> "null", num |-> 0, inf |-> 0, str |-> <<>>]
Num(n) == [type |-> "number", num |-> n, inf |-> 0, str |-> <<>>]
Infinite(sign) == [type |-> "number", num |-> 0, inf |-> sign, str |-> <<>>]
Str(text) == [type |-> "string", num |-> 0, inf |-> 0, str |-> text]
\* The value of a property read that throws a TypeError
TypeError == [type |-> "TypeError", num |-> 0, inf |-> 0, str |-> <<>>]

\* A value of the result field: a primitive, or an object with the two
\* properties (a property that is absent reads as undefined)
Primitive(v) ==
    [type |-> v.type, num |-> v.num, str |-> v.str,
     altitude |-> Undefined, verticalVelocity |-> Undefined]
Object(altitude, verticalVelocity) ==
    [type |-> "object", num |-> 0, str |-> <<>>,
     altitude |-> altitude, verticalVelocity |-> verticalVelocity]

\* !v is false
Truthy(v) ==
    CASE v.type \in {"undefined", "null"} -> FALSE
      [] v.type = "number" -> v.num # 0
      [] v.type = "string" -> v.str # <<>>
      [] OTHER -> TRUE
\* o[k]: reading a property of undefined or null throws
Get(o, k) ==
    IF o.type \in {"undefined", "null"} THEN TypeError
    ELSE IF k = "altitude" THEN o.altitude ELSE o.verticalVelocity
\* a === b, for a and b that are undefined, null, numbers or strings
StrictEq(a, b) ==
    /\ a.type = b.type
    /\ a.type = "number" => a.num = b.num /\ a.inf = b.inf
    /\ a.type = "string" => a.str = b.str
\* isFinite(v), v < n, v > n and Math.abs(v) > n for a number v
IsFinite(v) == v.inf = 0
Lt(v, n) == v.inf = -1 \/ (v.inf = 0 /\ v.num < n)
Gt(v, n) == v.inf = 1 \/ (v.inf = 0 /\ v.num > n)
AbsGt(v, n) == v.inf # 0 \/ Abs(v.num) > n

\* server.js:10-13: an object is the sequence of its <<key, value>> members
\* in insertion order; the values are in thousandths
GAME_PARAMS == << <<"mass", 1000000>>, <<"gravity", 1620>> >>
\* server.js:5: process.env.LANDER_SECRET || 'supersecret'; an unset
\* variable reads as the empty text here
secretOf(envValue) == IF envValue = "" THEN "supersecret" ELSE envValue
velocityCap == 50000         \* server.js:39: the literal 50

\* JSON.stringify(params): the members in insertion order, as a tuple of the
\* pieces of the text
RECURSIVE Members(_)
Members(params) ==
    IF params = <<>> THEN <<>>
    ELSE << "\"" \o params[1][1] \o "\":", ToString(params[1][2]) >>
         \o (IF Len(params) > 1 THEN <<",">> ELSE <<>>)
         \o Members(Tail(params))
Stringify(params) == <<"{">> \o Members(params) \o <<"}">>

\* crypto.createHmac('sha256', key).update(text).digest('hex'), as an ideal
\* MAC: two digests are equal exactly when key and text are
Hmac(key, text) == <<"hmac-sha256", key>> \o text

\* signParams(params)
signParams(params, SECRET) == Str(Hmac(SECRET, Stringify(params)))

\* server.js:23: the token that /config hands out
issuedToken(w) == signParams(w.GAME_PARAMS, w.SECRET)

\* Mutant: /validate signs the parameters in another key order.
expectedToken_reordered(w) ==
    signParams(<<w.GAME_PARAMS[2], w.GAME_PARAMS[1]>>, w.SECRET)

\* server.js:29: the token that /validate expects
expectedToken(w) == signParams(w.GAME_PARAMS, w.SECRET)

\* Mutant: any string is taken for the token.
tokenMatches_anyString(token, expected) == token.type = "string"

\* server.js:30: the negation of token !== expected
tokenMatches(token, expected) == StrictEq(token, expected)

\* server.js:33: "ok" when result is an object with two numbers,
\* "malformed" when the test of line 33 is true, "TypeError" if a property
\* of undefined or null were read
resultShape(result) ==
    IF ~Truthy(result) THEN "malformed"
    ELSE LET a == Get(result, "altitude")
             v == Get(result, "verticalVelocity")
         IN IF a.type = "TypeError" \/ v.type = "TypeError" THEN "TypeError"
            ELSE IF a.type # "number" \/ v.type # "number" THEN "malformed"
            ELSE "ok"

\* server.js:36
altitudeOutOfRange(a) == Lt(a, 0) \/ Gt(a, maxAltitude) \/ ~IsFinite(a)

\* Mutant: only the upper limit of the velocity is tested.
velocityOutOfRange_oneSided(v) == ~IsFinite(v) \/ Gt(v, velocityCap)

\* server.js:39
velocityOutOfRange(v) == ~IsFinite(v) \/ AbsGt(v, velocityCap)

\* The responses: res.status(400).json({ok: false, reason}), res.json({ok:
\* true}), res.json({params, token}), and the 500 of an uncaught exception.
\* sent counts the bodies sent.
NoResponse ==
    [status |-> 0, ok |-> FALSE, reason |-> "", token |-> Undefined,
     params |-> <<>>, sent |-> 0, threw |-> FALSE]
Reject(reason) ==
    [NoResponse EXCEPT !.status = 400, !.reason = reason, !.sent = 1]
Accept == [NoResponse EXCEPT !.status = 200, !.ok = TRUE, !.sent = 1]
Uncaught == [NoResponse EXCEPT !.status = 500, !.threw = TRUE]

\* A request body: present is false when req.body is undefined; a member
\* that is absent reads as undefined
NoBody == [present |-> FALSE, result |-> Primitive(Undefined), token |-> Undefined]
Body(result, token) == [present |-> TRUE, result |-> result, token |-> token]

\* server.js:27-43: the handler of POST /validate
validate(body, w) ==
    LET b == IF body.present THEN body ELSE NoBody      \* req.body || {}
        result == b.result
        token == b.token
        shape == resultShape(result)
    IN IF ~tokenMatches(token, expectedToken(w)) THEN Reject("invalid token")
       ELSE IF shape = "TypeError" THEN Uncaught
       ELSE IF shape = "malformed" THEN Reject("malformed result")
       ELSE IF altitudeOutOfRange(result.altitude)
            THEN Reject("invalid altitude")
       ELSE IF velocityOutOfRange(result.verticalVelocity)
            THEN Reject("invalid velocity")
       ELSE Accept

\* server.js:22-25: the handler of GET /config
config(w) ==
    [NoResponse EXCEPT !.status = 200, !.params = w.GAME_PARAMS,
                       !.token = issuedToken(w), !.sent = 1]

\* The server process started with LANDER_SECRET = envValue.  tokens: the
\* tokens that clients hold; kept: a request and its answer that a client
\* has kept.
NewServer(envValue) ==
    [SECRET |-> secretOf(envValue), GAME_PARAMS |-> GAME_PARAMS,
     tokens |-> {}, kept |-> <<>>]
NoServer == NewServer("")

----------------------------------------------------------------------------
(* The Lander class driven directly through its public methods, as the     *)
(* unit tests drive it (tests/lander.test.js).                             *)

MaxUpdates == 2              \* update calls explored after each reset

\* startFuel values passed to reset: 0, 1 and 10 units
FuelSet == {0, 10, 100}
\* dt values passed to update: 0 s, 1 s, 5 s
DtSet == {0, 10, 50}
\* <<gravity, mainThrust, sideThrust>> passed to update: the tests' (0, 1, 0),
\* the game's (1.62, 6, 3), and a side thrust of 50 that carries the lander
\* from the middle to a wall in one second
ParamSet == {<<0, 1000, 0>>, <<1620, 6000, 3000>>, <<0, 0, 50000>>}

\* What `last` records of a call: its name and arguments, how many thrusters
\* fired in it and the fuel before it, and for a frame of the game loop whether
\* it touched down, with which impact velocities, and by how many thousandths
\* of a pixel the lander was past the terrain (overlap).
\* params: the <<gravity, mainThrust, sideThrust>> of an update that is
\* compared between two craft.
\* For a call of getTerrainYPixel: its argument x, the indices of
\* terrainPoints it read, whether its result is a finite number, the result.
\* For a request to the server: its body and the response.
NoCall ==
    [op |-> "new", arg |-> "", dt |-> 0, fired |-> 0, fuelBefore |-> 0,
     touched |-> FALSE, impactVertical |-> 0, impactHorizontal |-> 0,
     overlap |-> 0, x |-> 0, read |-> {}, finite |-> TRUE, result |-> 0,
     params |-> <<0, 0, 0>>, request |-> NoBody, response |-> NoResponse]
Call(op, arg, dt, l) ==
    [NoCall EXCEPT !.op = op, !.arg = arg, !.dt = dt,
                   !.fired = thrusterCount(l), !.fuelBefore = l.fuel]

\* rnd: the outcomes of Math.random() that made the current terrain
NoAttempt ==
    [updates |-> 0, events |-> 0, ticks |-> 0, startLevel |-> 1, startFuel |-> 0,
     rnd |-> <<>>]

\* The page: no control held, the page visible (paused = false), no frame yet
\* (lastTime = 0).  lastTime is 0 or 1: unset, or the time of the last frame.
NewEnv == [keys |-> {}, pointers |-> {}, paused |-> FALSE, lastTime |-> 0]
\* Every control released and the page visible
Idle(e) == e.keys = {} /\ e.pointers = {} /\ ~e.paused

LanderInit ==
    /\ lander = NewLander(maxRange)
    /\ game = NewGame
    /\ env = NewEnv
    /\ last = NoCall
    /\ attempt = NoAttempt
    /\ twin = NewLander(maxRange)
    /\ web = NoServer

CallReset ==
    \E startFuel \in FuelSet :
        /\ lander' = reset(lander, startFuel)
        /\ last' = Call("reset", "", 0, lander)
        /\ attempt' = [attempt EXCEPT !.updates = 0, !.startFuel = startFuel]
        /\ UNCHANGED <<game, env, twin, web>>

CallStart ==
    \E t \in Thrusters :
        /\ lander' = start(lander, t)
        /\ last' = Call("start", t, 0, lander)
        /\ UNCHANGED <<game, env, attempt, twin, web>>

CallStop ==
    \E t \in Thrusters :
        /\ lander' = stop(lander, t)
        /\ last' = Call("stop", t, 0, lander)
        /\ UNCHANGED <<game, env, attempt, twin, web>>

CallUpdate ==
    \E dt \in DtSet, p \in ParamSet :
        /\ attempt.updates < MaxUpdates
        /\ lander' = update(lander, dt, p[1], p[2], p[3])
        /\ last' = Call("update", "", dt, lander)
        /\ attempt' = [attempt EXCEPT !.updates = @ + 1]
        /\ UNCHANGED <<game, env, twin, web>>

LanderNext == CallReset \/ CallStart \/ CallStop \/ CallUpdate

LanderSpec == LanderInit /\ [][LanderNext]_vars

----------------------------------------------------------------------------
(* The game as the page runs it: the frames of gameLoop, the keyboard and  *)
(* pointer handlers, the visibilitychange handler and the restart / play   *)
(* buttons.                                                                *)

MaxTicks == 510              \* frames with dt > 0 explored in one attempt
MaxEvents == 2               \* input events explored between two restarts

\* Gaps between two animation frames, in tenths of a second: 0.1 s, 0.3 s
GapSet == {1, 3}
\* Outcomes of Math.random(), in thousandths
RandSet == {140, 500}
\* The draws of one generateTerrain call: they alternate between two
\* different outcomes
RandomRuns ==
    {[k \in 1..(numPoints + 2) |-> IF k % 2 = 1 THEN p[1] ELSE p[2]] :
        p \in {q \in RandSet \X RandSet : q[1] # q[2]}}
\* The frame of an attempt, per level, at which a braking burn has to start
\* for a soft touchdown on ground at height 0.142 (the draw 0.14)
BurnTick == <<88, 78, 70, 63, 57>>
\* The frames of an attempt at which the player's inputs arrive
InputTicks(level) ==
    IF level <= Len(BurnTick) THEN {0, BurnTick[level]} ELSE {0}

GameInit ==
    /\ lander = NewLander(maxRange)
    /\ game = NewGame
    /\ env = NewEnv
    /\ last = NoCall
    /\ attempt = NoAttempt
    /\ twin = NewLander(maxRange)
    /\ web = NoServer

InputArrives ==
    /\ attempt.events < MaxEvents
    /\ inProgress(game) /\ ~env.paused => attempt.ticks \in InputTicks(game.level)

Input(l, e, op, t) ==
    /\ lander' = l
    /\ env' = e
    /\ last' = Call(op, t, 0, lander)
    /\ attempt' = [attempt EXCEPT !.events = @ + 1]
    /\ UNCHANGED <<game, twin, web>>

KeyDown ==
    \E t \in Thrusters :
        /\ InputArrives
        /\ Input(startHandler(lander, game, t),
                 [env EXCEPT !.keys = @ \cup {t}], "keydown", t)

KeyUp ==
    \E t \in env.keys :
        /\ InputArrives
        /\ Input(stopHandler(lander, t),
                 [env EXCEPT !.keys = @ \ {t}], "keyup", t)

PointerDown ==
    \E t \in Thrusters \ env.pointers :
        /\ InputArrives
        /\ Input(startHandler(lander, game, t),
                 [env EXCEPT !.pointers = @ \cup {t}], "pointerdown", t)

PointerUp ==
    \E t \in env.pointers :
        /\ InputArrives
        /\ Input(stopHandler(lander, t),
                 [env EXCEPT !.pointers = @ \ {t}], "pointerup", t)

Hidden ==
    /\ ~env.paused
    /\ InputArrives
    /\ Input(stopAll(lander), [env EXCEPT !.paused = TRUE], "hidden", "")

Visible ==
    /\ env.paused
    /\ InputArrives
    /\ Input(lander, [env EXCEPT !.paused = FALSE], "visible", "")

\* One call of gameLoop(timestamp), in a run of the model that follows an
\* attempt for at most maxTicks frames with dt > 0
Frame(maxTicks) ==
    \E gap \in GapSet :
        LET dt == frameDt(env.lastTime, gap)
            runs == ~env.paused
            r == IF runs THEN updatePhysics(lander, game, dt)
                 ELSE [lander |-> lander, game |-> game]
            advances == runs /\ inProgress(game) /\ dt > 0
            m == update(lander, dt, game.currentGravity, mainThrust, sideThrust)
            touched == runs /\ inProgress(game) /\ r.game.gameOver
        IN /\ advances => attempt.ticks < maxTicks
           /\ lander' = r.lander
           /\ game' = r.game
           /\ last' = [Call("frame", "", dt, lander) EXCEPT
                         !.touched = touched,
                         !.impactVertical =
                             IF touched THEN m.verticalVelocity ELSE 0,
                         !.impactHorizontal =
                             IF touched THEN m.horizontalVelocity ELSE 0,
                         !.overlap =
                             IF touched
                             THEN yPixOf(m) - getTerrainYPixel(game, xPixOf(m))
                             ELSE 0]
           /\ attempt' = [attempt EXCEPT !.ticks = IF advances THEN @ + 1 ELSE @]
           /\ env' = [env EXCEPT !.lastTime = 1]
           /\ UNCHANGED <<twin, web>>

GameLoop == Frame(MaxTicks)

\* The play button (before the first attempt) or the restart button (after
\* a touchdown): restartGame().  The buttons are hidden during an attempt;
\* the model presses them with every control released and the page visible.
Restart ==
    \E rnd \in RandomRuns :
        LET r == restartGame(lander, game, rnd)
        IN /\ buttonShown(game)
           /\ Idle(env)
           /\ lander' = r.lander
           /\ game' = r.game
           /\ last' = Call("restart", "", 0, lander)
           /\ attempt' = [attempt EXCEPT !.events = 0, !.ticks = 0,
                                         !.startLevel = game.level,
                                         !.startFuel = r.lander.fuel,
                                         !.rnd = rnd]
           /\ UNCHANGED <<env, twin, web>>

Next ==
    \/ KeyDown \/ KeyUp \/ PointerDown \/ PointerUp
    \/ Hidden \/ Visible \/ GameLoop \/ Restart

Spec == GameInit /\ [][Next]_vars

----------------------------------------------------------------------------
(* The touchdown branch of updatePhysics on its own: an attempt of level 1 *)
(* taken up one frame before chosen impact velocities and positions around *)
(* the landing pad, then run by gameLoop.                                  *)

\* Vertical velocities after the next frame, around the 2.0 m/s limit
ImpactVerticalSet == {0, 1990, 2000, 2001, 2010}
\* Horizontal velocities, around the limit on both sides
ImpactHorizontalSet == {-2001, -2000, 0, 2000, 2001}
\* Height above the ground before the frame: 1 cm, 10 cm, and the 20 cm that
\* a frame of 0.1 s at 2.0 m/s covers
ClearanceSet == {10, 100, 200}
\* Positions after the next frame: just outside, on the edges of, and in the
\* middle of the landing pad
PadSpots(zone) ==
    {zone.startRange - 1, zone.startRange,
     (zone.startRange + zone.endRange) \div 2,
     zone.endRange, zone.endRange + 1}

\* The altitude of the ground under the lander
groundUnder(l, g) == surfaceAltitudeOf(getTerrainYPixel(g, xPixOf(l)))

\* The lander of a running attempt, half of its fuel burnt, one frame of
\* 0.1 s before it is at position pos with velocities iv and ih
Approach(l, g, pos, iv, ih, clearance) ==
    LET f == l.fuel \div 2
        at == [l EXCEPT !.horizontalPosition = pos - TimesDt(ih, 1),
                        !.horizontalVelocity = ih,
                        !.verticalVelocity = iv - TimesDt(g.currentGravity, 1),
                        !.fuel = f,
                        !.mass = l.dryMass + f]
    IN [at EXCEPT !.altitude = groundUnder(at, g) + clearance]

TouchdownInit ==
    \E rnd \in RandomRuns, iv \in ImpactVerticalSet, ih \in ImpactHorizontalSet,
       clearance \in ClearanceSet :
        LET r == restartGame(NewLander(maxRange), NewGame, rnd)
        IN \E pos \in PadSpots(r.game.safeZone) :
            LET l == Approach(r.lander, r.game, pos, iv, ih, clearance)
            IN /\ ~touches(yPixOf(l), getTerrainYPixel(r.game, xPixOf(l)))
               /\ lander = l
               /\ game = r.game
               /\ env = [NewEnv EXCEPT !.lastTime = 1]
               /\ last = Call("frame", "", 1, l)
               /\ attempt = [NoAttempt EXCEPT !.startFuel = r.lander.fuel]
               /\ twin = NewLander(maxRange)
               /\ web = NoServer

TouchdownNext == GameLoop

TouchdownSpec == TouchdownInit /\ [][TouchdownNext]_vars

----------------------------------------------------------------------------
(* Properties of the Lander class, checked under LanderSpec.               *)

\* The thruster flags that are set, whatever the fuel
ActiveFlags(l) == {t \in Thrusters : Flag(l, t)}
AllOff(l) == ~l.upThruster /\ ~l.leftThruster /\ ~l.rightThruster

\* C1: in every state reached by reset(startFuel >= 0), start*, stop* and
\* update(dt >= 0, ...) calls, fuel is >= 0.
C1_FuelNeverNegative == lander.fuel >= 0

\* C1 witness: an update asked for more fuel than was left, and fuel is 0.
C1_Witness ==
    /\ last.op = "update"
    /\ last.fired * last.dt > last.fuelBefore
    /\ last.fuelBefore > 0
    /\ lander.fuel = 0

\* C2: one update(dt, ...) with fuel > 0 and k set thruster flags (k in 1..3)
\* sets fuel to max(fuel - k * dt, 0); an update with no flag set, or with
\* fuel = 0, leaves fuel unchanged.
C2_FuelDebit ==
    [][last'.op = "update" =>
         LET k == Cardinality(ActiveFlags(lander))
         IN IF lander.fuel > 0 /\ k >= 1
            THEN lander'.fuel = Max(lander.fuel - k * last'.dt, 0)
            ELSE lander'.fuel = lander.fuel]_vars

\* C2 witness: an update with two thrusters firing debited 2 * dt, and fuel
\* is left.
C2_Witness ==
    /\ last.op = "update"
    /\ last.fired = 2
    /\ last.dt > 0
    /\ lander.fuel > 0
    /\ lander.fuel = last.fuelBefore - 2 * last.dt

\* C3: whenever an update brings fuel to 0, the three thruster flags are all
\* false when that call returns.
C3_ShutOffAtEmpty ==
    [][last'.op = "update" /\ lander.fuel > 0 /\ lander'.fuel = 0
         => AllOff(lander')]_vars

\* C3 witness: an update with a thruster firing has emptied the tank.
C3_Witness ==
    /\ last.op = "update"
    /\ last.fired >= 1
    /\ last.fuelBefore > 0
    /\ lander.fuel = 0
    /\ AllOff(lander)

\* C5 as claimed: after every update, horizontalPosition is within
\* [0, maxRange], and whenever it equals 0 or maxRange right after an update,
\* horizontalVelocity is exactly 0.
C5_WallStops ==
    last.op = "update" =>
        /\ lander.horizontalPosition >= 0
        /\ lander.horizontalPosition <= lander.maxRange
        /\ lander.horizontalPosition \in {0, lander.maxRange}
               => lander.horizontalVelocity = 0

----------------------------------------------------------------------------
(* Properties of the game, checked under Spec.                             *)

\* The thrusters whose key or on-screen button is held
Held == env.keys \cup env.pointers

\* C4: in every reachable state of the game, each thruster flag is true only
\* while fuel > 0 and the corresponding control is held.
C4_FlagOnlyWhileHeld ==
    \A t \in Thrusters : Flag(lander, t) => lander.fuel > 0 /\ t \in Held

\* C4 witness: during an attempt, a frame in which thrusters fired has used
\* up the fuel; their controls are still held and their flags are off.
C4_Witness ==
    /\ inProgress(game)
    /\ last.op = "frame"
    /\ last.fired >= 1
    /\ lander.fuel = 0
    /\ Held # {}
    /\ AllOff(lander)

----------------------------------------------------------------------------
(* The touchdown rule, checked under TouchdownSpec.                        *)

Success == game.message = "Successful landing!" /\ ~game.crashed
Crash == game.message = "Crash!" /\ game.crashed
OnPad ==
    /\ game.safeZone.startRange <= lander.horizontalPosition
    /\ lander.horizontalPosition <= game.safeZone.endRange

\* C6: at touchdown in updatePhysics the outcome is Success if and only if
\* |impact vertical velocity| <= 2.0 and |impact horizontal velocity| <= 2.0
\* and safeZone.startRange <= horizontalPosition <= safeZone.endRange, all
\* bounds inclusive; in every other case the outcome is Crash.
C6_TouchdownOutcome ==
    last.touched =>
        /\ game.gameOver
        /\ IF /\ Abs(last.impactVertical) <= 2000
              /\ Abs(last.impactHorizontal) <= 2000
              /\ OnPad
           THEN Success
           ELSE Crash

\* C6 witness: a touchdown at exactly 2.0 m/s down and 2.0 m/s sideways on
\* an edge of the pad, judged Success.
C6_Witness ==
    /\ last.touched
    /\ last.impactVertical = 2000
    /\ Abs(last.impactHorizontal) = 2000
    /\ lander.horizontalPosition
           \in {game.safeZone.startRange, game.safeZone.endRange}
    /\ Success

----------------------------------------------------------------------------
(* Properties of the attempts and levels, checked under Spec.              *)

Craft(l) ==
    <<l.altitude, l.verticalVelocity, l.horizontalVelocity,
      l.horizontalPosition, l.fuel, l.mass>>

\* C8: updatePhysics(dt) changes nothing unless the game is in progress
\* (gameStarted and not gameOver); once an attempt has ended, no step other
\* than restartGame changes the craft's altitude, velocities, position or
\* fuel, or the level and outcome.
C8_EndedAbsorbsTicks ==
    [][(~game.gameStarted \/ game.gameOver) =>
          /\ last'.op = "frame" => lander' = lander /\ game' = game
          /\ last'.op # "restart" => Craft(lander') = Craft(lander) /\ game' = game
      ]_vars

\* C8 witness: a frame of 0.1 s after the end of an attempt, with a thruster
\* flag still set and fuel in the tank, has left the fuel as it was.
C8_Witness ==
    /\ last.op = "frame"
    /\ last.dt > 0
    /\ game.gameOver
    /\ ~last.touched
    /\ last.fired >= 1
    /\ lander.fuel = last.fuelBefore

\* C9: the level is 1 until the first attempt starts, increases by exactly 1 at a touchdown judged
\* Success, and is unchanged by a touchdown judged Crash, by restartGame, by
\* frames and by thruster inputs; between two consecutive restarts it
\* increases at most once.
C9_LevelCounter ==
    [][/\ ~game.gameStarted => game.level = 1
       /\ game'.level =
            (IF last'.touched /\ game'.message = "Successful landing!"
             THEN game.level + 1
             ELSE game.level)
       /\ game'.level <= attempt'.startLevel + 1
       /\ last'.op = "restart" => attempt'.startLevel = game.level
      ]_vars

\* C9 witness: a successful touchdown has raised the level of the attempt by
\* one, to 3 or more.
C9_Witness ==
    /\ last.touched
    /\ Success
    /\ game.level = attempt.startLevel + 1
    /\ game.level >= 3

\* C10: restartGame resets the craft with fuel max(1000 - 200 * (level - 1),
\* 100), sets currentGravity to 1.62 + 0.3 * (level - 1), generates a terrain,
\* clears gameOver, crashed and message and leaves the game in progress; the
\* starting fuel is never below 100 and never above that of the attempt
\* before.
C10_Restart ==
    [][last'.op = "restart" =>
          /\ lander' = reset(lander, lander'.fuel)
          /\ lander'.fuel = Max(10000 - 2000 * (game.level - 1), 1000)
          /\ game'.currentGravity = 1620 + 300 * (game.level - 1)
          /\ game'.level = game.level
          /\ Len(game'.terrainPoints) = numPoints + 1
          /\ \E i \in 1..(numPoints - 1) :
                 /\ game'.safeZone.startRange = i * (maxRange \div numPoints)
                 /\ game'.safeZone.endRange = (i + 1) * (maxRange \div numPoints)
                 /\ game'.terrainPoints[i + 1] = game'.safeZone.height
                 /\ game'.terrainPoints[i + 2] = game'.safeZone.height
          /\ ~game'.gameOver /\ ~game'.crashed /\ game'.message = ""
          /\ game'.gameStarted
          /\ lander'.fuel >= 1000
          /\ attempt.startFuel > 0 => lander'.fuel <= attempt.startFuel
      ]_vars

\* C10 witness: a restart at level 6, where the floor of 100 units binds.
C10_Witness ==
    /\ last.op = "restart"
    /\ game.level = 6
    /\ lander.fuel = 1000
    /\ game.currentGravity = 3120
    /\ game.gameStarted /\ ~game.gameOver

----------------------------------------------------------------------------
(* The touchdown frame, checked under Spec.                                *)

\* C11: in the frame that detects touchdown the outcome is judged on the
\* velocities the craft had on impact (an impact faster than 2 m/s on the pad
\* is a crash although the velocities are 0 afterwards), and when the frame
\* returns the altitude is the height of the terrain at the craft's
\* horizontal position, which is not zero, and both velocities are 0.
C11_SnapToSurface ==
    last.touched =>
        /\ lander.verticalVelocity = 0
        /\ lander.horizontalVelocity = 0
        /\ lander.altitude = heightNorm(game.terrainPoints, xPixOf(lander))
        /\ lander.altitude > 0
        /\ (OnPad /\ (Abs(last.impactVertical) > 2000
                        \/ Abs(last.impactHorizontal) > 2000)) => Crash
        /\ (OnPad /\ Abs(last.impactVertical) <= 2000
                  /\ Abs(last.impactHorizontal) <= 2000) => Success

\* C11 witness: a touchdown on the pad at more than 2 m/s: a crash, the craft
\* at rest on the surface above altitude 0.
C11_Witness ==
    /\ last.touched
    /\ OnPad
    /\ Abs(last.impactVertical) > 2000
    /\ Crash
    /\ lander.verticalVelocity = 0
    /\ lander.altitude = game.safeZone.height
    /\ lander.altitude > 0

\* C12: gameOver becomes true only in the touchdown branch of a frame taken
\* while the game is in progress (started, not over, the loop not paused): the
\* craft as updated by that frame is at or below the terrain.  No thruster
\* input, restart, pause, anomaly, fuel exhaustion or wall clamp sets it.
C12_EndedOnlyByTouchdown ==
    [][(~game.gameOver /\ game'.gameOver) =>
          /\ last'.op = "frame"
          /\ game.gameStarted
          /\ ~env.paused
          /\ LET m == update(lander, last'.dt, game.currentGravity,
                             mainThrust, sideThrust)
             IN yPixOf(m) >= getTerrainYPixel(game, xPixOf(m))
      ]_vars

\* C12 witness: a frame has flagged an anomaly and the attempt goes on.
C12_Witness ==
    /\ last.op = "frame"
    /\ game.gameStarted
    /\ ~game.gameOver
    /\ lander.anomaly
    /\ lander.fuel > 0

----------------------------------------------------------------------------
(* More properties of the Lander class, checked under LanderSpec.          *)

\* C13: immediately after reset(startFuel), from any prior state, altitude is
\* maxAltitude (100 m), both velocities are 0, horizontalPosition is
\* maxRange / 2, fuel is startFuel, the three thruster flags and anomaly are
\* false, and mass = fullMass = dryMass + startFuel.
C13_ResetState ==
    [][last'.op = "reset" =>
          /\ lander'.altitude = 100000
          /\ lander'.verticalVelocity = 0
          /\ lander'.horizontalVelocity = 0
          /\ 2 * lander'.horizontalPosition = lander.maxRange
          /\ lander'.fuel = attempt'.startFuel
          /\ ~lander'.upThruster /\ ~lander'.leftThruster
          /\ ~lander'.rightThruster
          /\ ~lander'.anomaly
          /\ lander'.mass = lander.dryMass + attempt'.startFuel
          /\ lander'.fullMass = lander'.mass
          /\ lander'.maxRange = lander.maxRange
          /\ lander'.dryMass = lander.dryMass
      ]_vars

\* C13 witness: a reset with fuel, made while thrusters were firing with a
\* different amount of fuel.
C13_Witness ==
    /\ last.op = "reset"
    /\ last.fired >= 2
    /\ lander.fuel > 0
    /\ lander.fuel # last.fuelBefore
    /\ AllOff(lander)
    /\ lander.altitude = maxAltitude

----------------------------------------------------------------------------
(* The terrain on its own: generateTerrain() over the outcomes of          *)
(* Math.random(), and the terrain read back through getTerrainYPixel().    *)

\* Outcomes of Math.random() for the heights, in thousandths: 0.1, 0.1999,
\* 0.2002 and 0.3997 of the canvas height
HeightDraws == {0, 333, 334, 999}
\* Outcomes of Math.random() for the safe index: the least and the greatest,
\* and those on both sides of a change of index
IndexDraws == {0, 124, 125, 874, 875, 999}
\* The draws of one generateTerrain call: heights that repeat with period 3,
\* then the draw of the safe index
TerrainDraws ==
    {[k \in 1..(numPoints + 2) |->
         IF k = numPoints + 2 THEN s ELSE p[((k - 1) % 3) + 1]] :
        p \in HeightDraws \X HeightDraws \X HeightDraws, s \in IndexDraws}

TerrainInit ==
    /\ lander = NewLander(maxRange)
    /\ game = NewGame
    /\ env = NewEnv
    /\ last = NoCall
    /\ attempt = NoAttempt
    /\ twin = NewLander(maxRange)
    /\ web = NoServer

CallGenerateTerrain ==
    \E rnd \in TerrainDraws :
        /\ game' = generateTerrain(game, rnd)
        /\ attempt' = [attempt EXCEPT !.rnd = rnd]
        /\ last' = Call("generateTerrain", "", 0, lander)
        /\ UNCHANGED <<lander, env, twin, web>>

\* Arguments of getTerrainYPixel, in thousandths of a pixel: the left edge,
\* both sides of the first segment boundary, the boundaries of the pad
\* segments, the middle of a segment, both sides of the right edge's last
\* pixel and canvas.width itself
XSet ==
    {0, 1, 35999, 36000, 36001, 54000, 72000, 288000, 324000, 359999,
     canvasWidth * 1000}

\* One call of getTerrainYPixel(x).  A read of terrainPoints outside the array
\* gives undefined and the result is then NaN (not finite).
CallGetTerrainYPixel ==
    \E x \in XSet :
        LET points == game.terrainPoints
            read == IF Len(points) = 0 THEN {} ELSE terrainReads(points, x)
            finite == \A k \in read : k >= 0 /\ k < Len(points)
        IN /\ last' = [Call("getTerrainYPixel", "", 0, lander) EXCEPT
                         !.x = x, !.read = read, !.finite = finite,
                         !.result =
                             IF finite THEN getTerrainYPixel(game, x) ELSE 0]
           /\ UNCHANGED <<lander, game, env, attempt, twin, web>>

TerrainNext == CallGenerateTerrain \/ CallGetTerrainYPixel

TerrainSpec == TerrainInit /\ [][TerrainNext]_vars

\* The index of the safe segment, read back from safeZone
SafeSegment == game.safeZone.startRange \div (maxRange \div numPoints)
\* The height drawn for sample k (JavaScript index), before the pad is made
OriginalHeight(k) == 10000 + 30 * attempt.rnd[k + 1]

\* C14: after every generateTerrain call, for every outcome of the random
\* source, the two endpoint samples of the safe segment are equal, equal to
\* safeZone.height, at most 0.2 and at most each of their original values;
\* the safe segment is never the first or the last one (its index is in
\* 1 .. numSegments - 2).
C14_FlatPad ==
    last.op = "generateTerrain" =>
        LET i == SafeSegment
            numSegments == Len(game.terrainPoints) - 1
        IN /\ numSegments = 10
           /\ i >= 1 /\ i <= numSegments - 2
           /\ game.safeZone.startRange = i * 10000
           /\ game.safeZone.endRange = (i + 1) * 10000
           /\ game.terrainPoints[i + 1] = game.terrainPoints[i + 2]
           /\ game.terrainPoints[i + 1] = game.safeZone.height
           /\ game.safeZone.height <= 20000
           /\ game.safeZone.height <= OriginalHeight(i)
           /\ game.safeZone.height <= OriginalHeight(i + 1)

\* C14 witness: the last admissible segment is the pad; both of its samples
\* were drawn above 0.2 and the pad is at 0.2.
C14_Witness ==
    /\ last.op = "generateTerrain"
    /\ SafeSegment = 8
    /\ OriginalHeight(8) > 20000
    /\ OriginalHeight(9) > 20000
    /\ OriginalHeight(8) # OriginalHeight(9)
    /\ game.safeZone.height = 20000

C16_ContinuousAtBoundaries ==
    Len(game.terrainPoints) > 0 =>
        LET points == game.terrainPoints
            w == segmentWidthOf(points)
        IN \A k \in 1..(Len(points) - 2) :
              /\ interpolate(points[k], points[k + 1], w, w) = points[k + 1]
              /\ interpolate(points[k + 1], points[k + 2], 0, w) = points[k + 1]
              /\ heightNorm(points, k * w) = points[k + 1]
              /\ (last.op = "getTerrainYPixel" /\ last.x = k * w) =>
                     last.result = canvasHeight * 1000
                                   - RoundDiv(points[k + 1] * canvasHeight, 100)

\* C16 witness: getTerrainYPixel was called at the boundary between two
\* sloping segments whose three samples are all different.
C16_Witness ==
    /\ last.op = "getTerrainYPixel"
    /\ Len(game.terrainPoints) = numPoints + 1
    /\ last.x = 8 * segmentWidthOf(game.terrainPoints)
    /\ game.terrainPoints[8] # game.terrainPoints[9]
    /\ game.terrainPoints[9] # game.terrainPoints[10]
    /\ game.terrainPoints[8] # game.terrainPoints[10]
    /\ last.result = canvasHeight * 1000
                     - RoundDiv(game.terrainPoints[9] * canvasHeight, 100)

----------------------------------------------------------------------------
(* Mass and thrust of the Lander class, checked under LanderSpec.          *)

\* C17: in every reachable state of the Lander (after construction and any
\* sequence of reset, start / stop and update calls), mass = dryMass + fuel
\* and fullMass / mass >= 1.
C17_MassTracksFuel ==
    /\ lander.mass = lander.dryMass + lander.fuel
    /\ lander.mass > 0
    /\ lander.fullMass >= lander.mass

\* C17 witness: an update has burnt fuel and the craft is lighter than with
\* its tank full.
C17_Witness ==
    /\ last.op = "update"
    /\ last.fired >= 1
    /\ lander.fuel < last.fuelBefore
    /\ lander.fuel > 0
    /\ lander.mass = lander.dryMass + lander.fuel
    /\ lander.fullMass > lander.mass

----------------------------------------------------------------------------
(* Two Lander instances driven side by side, as the unit test 'thrust is   *)
(* more effective with lower mass' drives its heavy and its light craft:   *)
(* `lander` is the craft that can be handled alone, `twin` only ever gets  *)
(* the calls that both get.                                                *)

\* startFuel values given to both craft: 2 and 10 units.  With these tanks
\* one second of burn changes fullMass / mass by a thousandth, which the
\* model's accelerations in mm/s^2 resolve.
TwinFuelSet == {20, 100}
\* dt values of the updates: 0 s, 1 s
TwinDtSet == {0, 10}

TwinInit ==
    /\ lander = NewLander(maxRange)
    /\ twin = NewLander(maxRange)
    /\ web = NoServer
    /\ game = NewGame
    /\ env = NewEnv
    /\ last = NoCall
    /\ attempt = NoAttempt

\* both.reset(startFuel)
BothReset ==
    \E startFuel \in TwinFuelSet :
        /\ lander' = reset(lander, startFuel)
        /\ twin' = reset(twin, startFuel)
        /\ last' = Call("bothReset", "", 0, lander)
        /\ attempt' = [attempt EXCEPT !.updates = 0, !.startFuel = startFuel]
        /\ UNCHANGED <<game, env, web>>

\* both.startUp() / startLeft() / startRight()
BothStart ==
    \E t \in Thrusters :
        /\ lander' = start(lander, t)
        /\ twin' = start(twin, t)
        /\ last' = Call("bothStart", t, 0, lander)
        /\ UNCHANGED <<game, env, attempt, web>>

\* both.update(dt, gravity, mainThrust, sideThrust), the same arguments
BothUpdate ==
    \E dt \in TwinDtSet, p \in ParamSet :
        /\ attempt.updates < MaxUpdates
        /\ lander' = update(lander, dt, p[1], p[2], p[3])
        /\ twin' = update(twin, dt, p[1], p[2], p[3])
        /\ last' = [Call("bothUpdate", "", dt, lander) EXCEPT !.params = p]
        /\ attempt' = [attempt EXCEPT !.updates = @ + 1]
        /\ UNCHANGED <<game, env, web>>

\* lander.startUp() / startLeft() / startRight() alone
OneStart ==
    \E t \in Thrusters :
        /\ lander' = start(lander, t)
        /\ last' = Call("start", t, 0, lander)
        /\ UNCHANGED <<game, env, attempt, twin, web>>

\* lander.update(dt, gravity, mainThrust, sideThrust) alone
OneUpdate ==
    \E dt \in TwinDtSet, p \in ParamSet :
        /\ attempt.updates < MaxUpdates
        /\ lander' = update(lander, dt, p[1], p[2], p[3])
        /\ last' = [Call("update", "", dt, lander) EXCEPT !.params = p]
        /\ attempt' = [attempt EXCEPT !.updates = @ + 1]
        /\ UNCHANGED <<game, env, twin, web>>

TwinNext ==
    \/ BothReset \/ BothStart \/ BothUpdate
    \/ OneStart \/ OneUpdate

TwinSpec == TwinInit /\ [][TwinNext]_vars


\* The two craft differ in nothing but the fuel left and the mass
SameButFuel(a, b) == [a EXCEPT !.fuel = b.fuel, !.mass = b.mass] = b
\* The craft is strictly inside the range and no anomaly was flagged
Unclamped(l) ==
    /\ l.horizontalPosition > 0
    /\ l.horizontalPosition < l.maxRange
    /\ ~l.anomaly

C19_MassDropsEveryCall ==
    [][(last'.op = "update" /\ thrusterCount(lander) >= 1 /\ lander.fuel > 0) =>
          /\ lander'.mass < lander.mass
          /\ (thrusterCount(lander) = 1 /\ last'.dt = 0 /\ lander.fuel >= 10) =>
                 lander'.mass = lander.mass - 10
      ]_vars


\* The first craft has only its main thruster on, the second has none on,
\* and they are equal in everything else; there is fuel
OnlyUpDiffers(a, b) ==
    /\ a.upThruster /\ ~a.leftThruster /\ ~a.rightThruster
    /\ [a EXCEPT !.upThruster = FALSE] = b
    /\ a.fuel > 0

----------------------------------------------------------------------------
(* The anomaly check of Lander.update, driven with accelerations large     *)
(* enough to take the vertical velocity past the sanity bound of 1000 m/s  *)
(* in one call.                                                            *)

\* dt values: 0 s, 0.1 s, 5 s
HardDtSet == {0, 1, 50}
\* <<gravity, mainThrust, sideThrust>>: the game's, a gravity of 300 m/s^2
\* and a main thrust of 210 m/s^2
HardParamSet ==
    {<<1620, 6000, 3000>>, <<300000, 6000, 3000>>, <<1620, 210000, 3000>>}

CallHardUpdate ==
    \E dt \in HardDtSet, p \in HardParamSet :
        /\ attempt.updates < MaxUpdates
        /\ lander' = update(lander, dt, p[1], p[2], p[3])
        /\ last' = [Call("update", "", dt, lander) EXCEPT !.params = p]
        /\ attempt' = [attempt EXCEPT !.updates = @ + 1]
        /\ UNCHANGED <<game, env, twin, web>>

AnomalyNext == CallReset \/ CallStart \/ CallStop \/ CallHardUpdate

AnomalySpec == LanderInit /\ [][AnomalyNext]_vars

\* C21: after every update call, altitude is within [0, maxAltitude] and
\* |verticalVelocity| <= 1000; an update sets anomaly exactly when the
\* integrated altitude left [0, maxAltitude] or the integrated
\* |verticalVelocity| exceeded 1000 in that update; the altitude is then
\* clamped, and the vertical velocity is zeroed only in the latter case.
C21_AnomalyClamp ==
    [][last'.op = "update" =>
         LET p == last'.params
             dt == last'.dt
             vv == lander.verticalVelocity + TimesDt(accelY(lander, p[1], p[2]), dt)
             alt == lander.altitude - TimesDt(vv, dt)
             altOut == alt < 0 \/ alt > 100000
             vvOut == vv > 1000000 \/ vv < -1000000
         IN /\ lander'.altitude >= 0 /\ lander'.altitude <= 100000
            /\ lander'.verticalVelocity <= 1000000
            /\ lander'.verticalVelocity >= -1000000
            /\ ~lander.anomaly => (lander'.anomaly <=> (altOut \/ vvOut))
            /\ lander.anomaly => lander'.anomaly
            /\ lander'.altitude =
                   (IF alt < 0 THEN 0 ELSE IF alt > 100000 THEN 100000 ELSE alt)
            /\ lander'.verticalVelocity = (IF vvOut THEN 0 ELSE vv)
      ]_vars

\* C21 witness: an update has taken the altitude below 0 at less than
\* 1000 m/s: the anomaly is flagged, the altitude is 0 and the vertical
\* velocity is kept.
C21_Witness ==
    /\ last.op = "update"
    /\ last.dt > 0
    /\ last.params = <<1620, 6000, 3000>>
    /\ lander.anomaly
    /\ lander.altitude = 0
    /\ lander.verticalVelocity > 0
    /\ lander.verticalVelocity <= 1000000

----------------------------------------------------------------------------
(* The anomaly flag in the game, checked under Spec.                       *)

\* C22: the anomaly flag is sticky and non-fatal: once set it stays true
\* through every later frame and thruster input until the next restart
\* (reset), which clears it; only a frame sets it; the frame that sets it ends
\* the attempt only if the craft has reached the terrain, and frames taken
\* with the flag set go on advancing the craft.
C22_StickyNonFatal ==
    [][LET m == update(lander, last'.dt, game.currentGravity,
                       mainThrust, sideThrust)
           reached == yPixOf(m) >= getTerrainYPixel(game, xPixOf(m))
           running == game.gameStarted /\ ~game.gameOver /\ ~env.paused
       IN /\ (lander.anomaly /\ last'.op # "restart") => lander'.anomaly
          /\ last'.op = "restart" => ~lander'.anomaly
          /\ (~lander.anomaly /\ lander'.anomaly) =>
                 /\ last'.op = "frame"
                 /\ running
                 /\ game'.gameOver <=> reached
          /\ (lander.anomaly /\ last'.op = "frame" /\ running) =>
                 /\ game'.gameOver <=> reached
                 /\ ~reached => lander' = m
                 /\ (~reached /\ last'.dt > 0) =>
                        lander'.verticalVelocity # lander.verticalVelocity
      ]_vars

\* C22 witness: the craft was flagged at the top of the range, and later
\* frames have let it fall from there: it is below the top, descending, and
\* the attempt goes on with the flag still set.
C22_Witness ==
    /\ last.op = "frame"
    /\ last.dt > 0
    /\ game.gameStarted /\ ~game.gameOver
    /\ lander.anomaly
    /\ lander.altitude < maxAltitude
    /\ lander.verticalVelocity > 0

----------------------------------------------------------------------------
(* The server on its own: a process started with or without LANDER_SECRET, *)
(* and clients that ask for /config and post bodies to /validate.          *)

\* Values of LANDER_SECRET: unset, set
EnvSecrets == {"", "k1"}
\* Values of the result member: missing, null, a number, objects whose
\* members are missing or not numbers, and numbers on both sides of every
\* limit of the handler (altitudes -1, 0, 50, 100, 100.001 and Infinity,
\* velocities 0, +-50, +-50.001 and +-Infinity)
ResultSet ==
    {Primitive(Undefined), Primitive(Null), Primitive(Num(5000)),
     Object(Str(<<"50">>), Num(0)), Object(Num(0), Undefined),
     Object(Num(-1000), Num(0)), Object(Num(-1000), Infinite(1)),
     Object(Num(100001), Num(0)), Object(Infinite(1), Num(0)),
     Object(Num(0), Num(50000)), Object(Num(100000), Num(-50000)),
     Object(Num(0), Num(50001)), Object(Num(50000), Num(-50001)),
     Object(Num(50000), Infinite(-1))}
\* Values of the token member: a token received from /config, the token
\* made with the default secret of the source, one made with a guessed
\* secret, and a missing one
TokenSet(w) ==
    w.tokens \cup {signParams(GAME_PARAMS, "supersecret"),
                   signParams(GAME_PARAMS, "guess"), Undefined}
Bodies(w) == {NoBody} \cup {Body(r, t) : r \in ResultSet, t \in TokenSet(w)}

ServerInit ==
    \E envValue \in EnvSecrets :
        /\ web = NewServer(envValue)
        /\ lander = NewLander(maxRange)
        /\ twin = NewLander(maxRange)
        /\ game = NewGame
        /\ env = NewEnv
        /\ last = NoCall
        /\ attempt = NoAttempt

\* GET /config; the client holds the token of the response from then on
GetConfig ==
    LET response == config(web)
    IN /\ last' = [NoCall EXCEPT !.op = "config", !.response = response]
       /\ web' = [web EXCEPT !.tokens = @ \cup {response.token}]
       /\ UNCHANGED <<lander, game, env, attempt, twin>>

\* POST /validate; the client may keep the exchange
PostValidate ==
    \E body \in Bodies(web), keep \in BOOLEAN :
        LET response == validate(body, web)
        IN /\ last' = [NoCall EXCEPT !.op = "validate", !.request = body,
                                     !.response = response]
           /\ web' = [web EXCEPT
                        !.kept = IF keep THEN <<body, response>> ELSE @]
           /\ UNCHANGED <<lander, game, env, attempt, twin>>

ServerNext == GetConfig \/ PostValidate

ServerSpec == ServerInit /\ [][ServerNext]_vars

\* The token of the request is the HMAC, under the secret of the process, of
\* the text {"mass":1000,"gravity":1.62}
TokenIsValid(request, w) ==
    /\ request.present
    /\ request.token.type = "string"
    /\ request.token.str =
           <<"hmac-sha256", w.SECRET, "{", "\"mass\":", "1000000", ",",
             "\"gravity\":", "1620", "}">>
\* The request has a result with two numbers
NumericFields(request) ==
    /\ request.present
    /\ request.result.type = "object"
    /\ request.result.altitude.type = "number"
    /\ request.result.verticalVelocity.type = "number"

\* C23: POST /validate rejects with reason 'invalid token' every request
\* whose token differs from the HMAC of the canonical parameters (a missing
\* token or body included), whatever the result member contains; a request
\* with a valid token, numeric fields and altitude = -1 is rejected with
\* reason 'invalid altitude', whatever its verticalVelocity.
C23_TokenThenAltitude ==
    last.op = "validate" =>
        LET request == last.request
            response == last.response
        IN /\ ~TokenIsValid(request, web) =>
                  /\ response.status = 400
                  /\ ~response.ok
                  /\ response.reason = "invalid token"
           /\ (/\ TokenIsValid(request, web)
               /\ NumericFields(request)
               /\ request.result.altitude = Num(-1000)) =>
                  /\ response.status = 400
                  /\ ~response.ok
                  /\ response.reason = "invalid altitude"

\* C23 witness: a result that is in range, sent with a token made with a
\* guessed secret, was rejected for its token; then a request with the valid
\* token, altitude -1 and an infinite velocity was rejected for its altitude.
C23_Witness ==
    /\ last.op = "validate"
    /\ TokenIsValid(last.request, web)
    /\ last.request.result = Object(Num(-1000), Infinite(1))
    /\ last.response = Reject("invalid altitude")
    /\ web.kept # <<>>
    /\ web.kept[1] = Body(Object(Num(0), Num(50000)),
                          signParams(GAME_PARAMS, "guess"))
    /\ web.kept[2] = Reject("invalid token")


\* C24: POST /validate answers {ok: true} if and only if the token matches,
\* result.altitude is a finite number in [0, maxAltitude] and
\* result.verticalVelocity is a finite number of magnitude <= 50; every other
\* request gets exactly one rejection (status 400) with a reason, and the
\* handler never throws.
C24_AcceptsExactlyValid ==
    last.op = "validate" =>
        LET request == last.request
            response == last.response
            a == request.result.altitude
            v == request.result.verticalVelocity
            good == /\ TokenIsValid(request, web)
                    /\ NumericFields(request)
                    /\ a.inf = 0 /\ a.num >= 0 /\ a.num <= 100000
                    /\ v.inf = 0 /\ v.num >= -50000 /\ v.num <= 50000
        IN /\ response.ok <=> good
           /\ response.ok => response = Accept
           /\ ~response.ok =>
                  /\ response.status = 400
                  /\ response.reason \in {"invalid token", "malformed result",
                                          "invalid altitude", "invalid velocity"}
           /\ response.sent = 1
           /\ ~response.threw

\* C24 witness: a request with the valid token, altitude 100 and vertical
\* velocity -50, both on their limits, was answered {ok: true}; a request that
\* differed only by a velocity of -50.001 had been rejected for its velocity.
C24_Witness ==
    /\ last.op = "validate"
    /\ TokenIsValid(last.request, web)
    /\ last.request.result = Object(Num(100000), Num(-50000))
    /\ last.response = Accept
    /\ web.kept # <<>>
    /\ web.kept[1].token = last.request.token
    /\ web.kept[1].result = Object(Num(50000), Num(-50001))
    /\ web.kept[2] = Reject("invalid velocity")

\* C25: the server is stateless and its token round-trips: a token returned
\* by GET /config is accepted by the token check of every later POST
\* /validate, every GET /config returns the same token, the process's
\* secret and parameters never change, and a request that is repeated gets
\* the answer it got before, whatever was asked in between.
C25_StatelessRoundTrip ==
    [][/\ web'.SECRET = web.SECRET
       /\ web'.GAME_PARAMS = web.GAME_PARAMS
       /\ last'.op = "config" =>
              /\ last'.response.status = 200
              /\ last'.response.params = web.GAME_PARAMS
              /\ \A t \in web.tokens : last'.response.token = t
       /\ last'.op = "validate" =>
              /\ (last'.request.present /\ last'.request.token \in web.tokens)
                     => last'.response.reason # "invalid token"
              /\ (web.kept # <<>> /\ web.kept[1] = last'.request)
                     => last'.response = web.kept[2]
      ]_vars

\* C25 witness: on a server with its own secret, a request carrying the
\* token of /config was accepted, and it is the exchange the client keeps.
C25_Witness ==
    /\ last.op = "validate"
    /\ web.SECRET = "k1"
    /\ last.request.token \in web.tokens
    /\ last.response = Accept
    /\ web.kept = <<last.request, last.response>>

----------------------------------------------------------------------------
(* The thruster calls of the Lander class, checked under LanderSpec.       *)

\* C26: the thruster start and stop calls are idempotent (the same call made
\* twice in a row leaves the state that the first one left) and change
\* nothing but their own thruster flag: altitude, velocities, position, fuel
\* and mass are as they were, and so are the other flags.
C26_ThrusterCallsIdempotent ==
    [][last'.op \in {"start", "stop"} =>
         /\ \E b \in BOOLEAN :
               lander' = (CASE last'.arg = "up" -> [lander EXCEPT !.upThruster = b]
                            [] last'.arg = "left" -> [lander EXCEPT !.leftThruster = b]
                            [] OTHER -> [lander EXCEPT !.rightThruster = b])
         /\ Craft(lander') = Craft(lander)
         /\ (last.op = last'.op /\ last.arg = last'.arg) => lander' = lander
      ]_vars

\* C26 witness: startLeft() was called in flight with the left thruster
\* already on and fuel left; only the left thruster is on.
C26_Witness ==
    /\ last.op = "start"
    /\ last.arg = "left"
    /\ last.fired = 1
    /\ lander.fuel > 0
    /\ lander.leftThruster /\ ~lander.upThruster /\ ~lander.rightThruster
    /\ lander.altitude < maxAltitude

----------------------------------------------------------------------------
(* Both side thrusters at once, checked under TwinSpec on the craft that   *)
(* is also handled alone.                                                  *)

\* The flags of both side thrusters are set and there is fuel
BothSidesFire(l) == l.leftThruster /\ l.rightThruster /\ l.fuel > 0
\* The number of flags that are set
FlagCount(l) ==
    (IF l.upThruster THEN 1 ELSE 0) + (IF l.leftThruster THEN 1 ELSE 0)
    + (IF l.rightThruster THEN 1 ELSE 0)

\* C27 as claimed: in an update with both the left and the right thruster
\* active and fuel > 0, horizontalVelocity is unchanged by that update, while
\* fuel is debited for both thrusters.
C27_SidesCancel ==
    [][(last'.op \in {"update", "bothUpdate"} /\ BothSidesFire(lander)) =>
          /\ lander'.horizontalVelocity = lander.horizontalVelocity
          /\ lander'.fuel =
                 (IF lander.fuel >= FlagCount(lander) * last'.dt
                  THEN lander.fuel - FlagCount(lander) * last'.dt ELSE 0)
      ]_vars

\* C27, amended: in an update with both the left and the right thruster
\* active and fuel > 0, the net horizontal acceleration is zero: the
\* horizontal position advances by the old horizontalVelocity * dt, and
\* horizontalVelocity is unchanged unless that takes the craft past a wall,
\* where it is zeroed; fuel is debited for both thrusters.
C27_SidesCancelInsideRange ==
    [][(last'.op \in {"update", "bothUpdate"} /\ BothSidesFire(lander)) =>
          LET x == lander.horizontalPosition
                   + TimesDt(lander.horizontalVelocity, last'.dt)
          IN /\ lander'.horizontalVelocity =
                    (IF x < 0 \/ x > lander.maxRange
                     THEN 0 ELSE lander.horizontalVelocity)
             /\ lander'.horizontalPosition =
                    (IF x < 0 THEN 0
                     ELSE IF x > lander.maxRange THEN lander.maxRange ELSE x)
             /\ lander'.fuel =
                    (IF lander.fuel >= FlagCount(lander) * last'.dt
                     THEN lander.fuel - FlagCount(lander) * last'.dt ELSE 0)
             /\ FlagCount(lander) >= 2
      ]_vars

\* C27 witness: a craft drifting sideways has fired both side thrusters, and
\* nothing else, for a second with a side thrust of 50 m/s^2: its horizontal
\* velocity is what it was, it is inside the range, and two seconds' worth of
\* fuel is gone.
C27_Witness ==
    /\ last.op = "update"
    /\ last.dt > 0
    /\ last.params[3] = 50000
    /\ last.fired = 2
    /\ lander.leftThruster /\ lander.rightThruster /\ ~lander.upThruster
    /\ lander.fuel = last.fuelBefore - 2 * last.dt
    /\ lander.horizontalVelocity # 0
    /\ lander.horizontalPosition > 0
    /\ lander.horizontalPosition < lander.maxRange

----------------------------------------------------------------------------
(* One attempt followed to its end: the page stays visible, the animation  *)
(* frames keep coming 0.1 s apart or more (game.js:497 asks for the next   *)
(* frame at the end of every gameLoop call), and the player presses and    *)
(* releases keys.                                                          *)

\* Frames with dt > 0 followed in an attempt; no attempt is that long
MaxDescentTicks == 9000
\* The levels of the attempts: level 4 (400 units of fuel, enough to pass
\* 1000 m/s upwards under main thrust) and level 6 (the floor of 100 units)
DescentLevels == {4, 6}

\* An attempt at its start; the loop has been running since the page was
\* loaded (lastTime is set)
DescentInit ==
    \E level \in DescentLevels, rnd \in RandomRuns :
        LET r == restartGame(NewLander(maxRange),
                             [NewGame EXCEPT !.level = level], rnd)
        IN /\ lander = r.lander
           /\ game = r.game
           /\ env = [NewEnv EXCEPT !.lastTime = 1]
           /\ last = Call("restart", "", 0, NewLander(maxRange))
           /\ attempt = [NoAttempt EXCEPT !.startLevel = level,
                                          !.startFuel = r.lander.fuel,
                                          !.rnd = rnd]
           /\ twin = NewLander(maxRange)
           /\ web = NoServer

DescentLoop == Frame(MaxDescentTicks)

DescentNext == KeyDown \/ KeyUp \/ DescentLoop

\* What a frame with dt > 0 that reaches updatePhysics during an attempt
\* does to the count of such frames
FrameArrives ==
    /\ game.gameStarted /\ ~game.gameOver
    /\ ~env.paused
    /\ env.lastTime # 0
    /\ attempt.ticks < MaxDescentTicks
    /\ attempt' = [attempt EXCEPT !.ticks = @ + 1]

\* game.js:497 and 500: every call of gameLoop asks for the next animation
\* frame, so while the page is visible the frames keep arriving
DescentSpec ==
    DescentInit /\ [][DescentNext]_vars /\ WF_attempt(FrameArrives)

\* C28: if frames with dt > 0 keep arriving while the game is in progress,
\* the attempt eventually ends (gameOver), whatever thruster inputs the
\* player gives.
C28_AttemptEnds == (game.gameStarted /\ ~game.gameOver) ~> game.gameOver

\* C28 witness: an attempt in which the main thruster was held until the tank
\* was empty, the craft having been held at the top of the range, has ended
\* in a touchdown.
C28_Witness ==
    /\ game.gameOver
    /\ last.touched
    /\ "up" \in env.keys
    /\ lander.fuel = 0
    /\ lander.anomaly
    /\ attempt.ticks > 1000


----------------------------------------------------------------------------
(* The touchdown test and the height kept during an attempt, checked       *)
(* under TouchdownSpec.                                                     *)

\* C29: a frame of a running attempt detects the touchdown exactly when the
\* pixel Y of the lander after the update is at or past the pixel Y of the
\* terrain under it, equality included; and whenever an attempt is in
\* progress after a step, the altitude of the lander is strictly above the
\* height of the terrain at its horizontal position.
C29_TouchdownAtOrPast ==
    [][/\ (last'.op = "frame" /\ inProgress(game) /\ ~env.paused) =>
              LET m == update(lander, last'.dt, game.currentGravity,
                              mainThrust, sideThrust)
              IN last'.touched <=>
                     yPixOf(m) >= getTerrainYPixel(game, xPixOf(m))
       /\ (game'.gameStarted /\ ~game'.gameOver) =>
              lander'.altitude >
                  heightNorm(game'.terrainPoints, xPixOf(lander'))]_vars

\* A frame ended the attempt with the lander exactly on the surface, not
\* past it.
C29_Witness ==
    /\ last.op = "frame"
    /\ last.touched
    /\ last.overlap = 0
    /\ last.impactVertical = 2000
    /\ game.gameOver
    /\ lander.altitude = heightNorm(game.terrainPoints, xPixOf(lander))

----------------------------------------------------------------------------
(* The update call that empties the tank, checked under AnomalySpec.       *)

\* C30: in the update call that exhausts the fuel, every thruster that was
\* on at the start of the call acts with its full acceleration (thrust times
\* fullMass over the mass at the start of the call) for the whole dt of the
\* call, even when the fuel left was less than (thrusters on) x dt.
C30_FullThrustInLastBurn ==
    [][(last'.op = "update" /\ lander.fuel > 0 /\ lander'.fuel = 0) =>
         LET p == last'.params
             dt == last'.dt
             main == IF lander.upThruster
                     THEN RoundDiv(p[2] * lander.fullMass, lander.mass) ELSE 0
             left == IF lander.leftThruster
                     THEN RoundDiv(p[3] * lander.fullMass, lander.mass) ELSE 0
             right == IF lander.rightThruster
                      THEN RoundDiv(p[3] * lander.fullMass, lander.mass) ELSE 0
             vv == lander.verticalVelocity + RoundDiv((p[1] - main) * dt, 10)
             hv == lander.horizontalVelocity + RoundDiv((right - left) * dt, 10)
             pos == lander.horizontalPosition + RoundDiv(hv * dt, 10)
         IN /\ lander'.verticalVelocity =
                   (IF vv > 1000000 \/ vv < -1000000 THEN 0 ELSE vv)
            /\ lander'.horizontalVelocity =
                   (IF pos < 0 \/ pos > lander.maxRange THEN 0 ELSE hv)]_vars

\* An update of 5 s with the game's parameters emptied a tank that held less
\* than (thrusters on) x 5 s, and the lander, at rest after reset, now rises:
\* gravity alone, or thrust for the time the fuel would have lasted, leaves
\* it falling.
C30_Witness ==
    /\ last.op = "update"
    /\ last.dt = 50
    /\ last.params = <<1620, 6000, 3000>>
    /\ last.fired >= 1
    /\ last.fuelBefore > 0
    /\ last.fuelBefore < last.fired * last.dt
    /\ lander.fuel = 0
    /\ attempt.updates = 1
    /\ lander.verticalVelocity < -20000

----------------------------------------------------------------------------
(* The order of integration in Lander.update, checked under TwinSpec.      *)

----------------------------------------------------------------------------
(* The fuel over an attempt, checked under LanderSpec.                     *)

\* C32: between two resets no update and no thruster call increases the
\* fuel, so the fuel never exceeds what the reset gave, and the
\* thrust-effectiveness ratio fullMass / mass never decreases.
C32_FuelOnlyBurns ==
    [][last'.op # "reset" =>
         /\ lander'.fuel <= lander.fuel
         /\ lander'.fuel <= attempt'.startFuel
         /\ lander'.fullMass = lander.fullMass
         /\ lander'.mass > 0
         /\ lander'.fullMass * lander.mass >= lander.fullMass * lander'.mass
      ]_vars

\* The second update since the reset burnt fuel again: part of the tank is
\* left and the lander is lighter than with the full tank.
C32_Witness ==
    /\ last.op = "update"
    /\ attempt.updates = 2
    /\ lander.fuel > 0
    /\ lander.fuel < last.fuelBefore
    /\ last.fuelBefore < attempt.startFuel
    /\ lander.mass < lander.fullMass

----------------------------------------------------------------------------
(* Who writes the lander, checked under Spec.                              *)

\* C33 as claimed: the lander is changed by its own update method, by the
\* thruster start / stop calls and by reset at the start of an attempt, and
\* by nothing else: every step leaves it as it was or as one of these calls
\* leaves it.
C33_OnlyOwnMethods ==
    [][\/ lander' = lander
       \/ /\ last'.op = "frame"
          /\ lander' = update(lander, last'.dt, game.currentGravity,
                              mainThrust, sideThrust)
       \/ \E t \in Thrusters :
              lander' = start(lander, t) \/ lander' = stop(lander, t)
       \/ lander' = stopAll(lander)
       \/ /\ last'.op = "restart"
          /\ lander' = reset(lander, startFuelFor(game.level))
      ]_vars

\* C33, amended: besides these calls, the touchdown branch of
\* Game.updatePhysics writes altitude, verticalVelocity and
\* horizontalVelocity of the lander that update has just left, and nothing
\* else of it; no other step writes position, fuel, mass or flags.
C33_OwnMethodsAndTouchdown ==
    [][\/ lander' = lander
       \/ /\ last'.op = "frame"
          /\ lander' = update(lander, last'.dt, game.currentGravity,
                              mainThrust, sideThrust)
       \/ /\ last'.op = "frame"
          /\ last'.touched
          /\ lander'.verticalVelocity = 0
          /\ lander'.horizontalVelocity = 0
          /\ [lander' EXCEPT !.altitude = 0] =
                 [update(lander, last'.dt, game.currentGravity,
                         mainThrust, sideThrust)
                    EXCEPT !.altitude = 0, !.verticalVelocity = 0,
                           !.horizontalVelocity = 0]
       \/ \E t \in Thrusters :
              lander' = start(lander, t) \/ lander' = stop(lander, t)
       \/ lander' = stopAll(lander)
       \/ /\ last'.op = "restart"
          /\ lander' = reset(lander, startFuelFor(game.level))
      ]_vars

\* A frame touched down with the main thruster firing and fuel left: the
\* lander that arrived with both velocities is at rest above altitude 0, its
\* flag and its fuel as update left them.
C33_Witness ==
    /\ last.op = "frame"
    /\ last.touched
    /\ last.impactVertical # 0
    /\ last.impactHorizontal # 0
    /\ lander.verticalVelocity = 0
    /\ lander.horizontalVelocity = 0
    /\ lander.altitude > 0
    /\ lander.upThruster
    /\ lander.fuel > 0
    /\ lander.fuel < attempt.startFuel

----------------------------------------------------------------------------
(* The terrain between two restarts, checked under Spec.                   *)

\* C34: terrainPoints and safeZone change only inside restartGame: frames
\* (the touchdown frame included), thruster inputs and the page being hidden
\* or shown leave both as they are.
C34_TerrainFixedInAttempt ==
    [][last'.op # "restart" =>
         /\ game'.terrainPoints = game.terrainPoints
         /\ game'.safeZone = game.safeZone]_vars

\* An attempt with two inputs has ended in a touchdown frame, and the
\* terrain and the pad are still the ones its restart generated.
C34_Witness ==
    /\ last.op = "frame"
    /\ last.touched
    /\ game.gameOver
    /\ attempt.events = 2
    /\ Len(game.terrainPoints) = numPoints + 1
    /\ game.terrainPoints = generateTerrain(game, attempt.rnd).terrainPoints
    /\ game.safeZone = generateTerrain(game, attempt.rnd).safeZone
    /\ game.safeZone.endRange > game.safeZone.startRange

----------------------------------------------------------------------------
(* The outcome fields of the Game, checked under Spec.                     *)

\* C35: in every reachable state the outcome fields agree: crashed implies
\* gameOver; message is "Crash!" exactly when crashed, "Successful landing!"
\* exactly when gameOver and not crashed, and empty exactly when not gameOver.
C35_OutcomeFieldsAgree ==
    /\ game.crashed => game.gameOver
    /\ (game.message = "Crash!") <=> game.crashed
    /\ (game.message = "Successful landing!") <=>
           (game.gameOver /\ ~game.crashed)
    /\ (game.message = "") <=> ~game.gameOver

\* A crash on level 2: a successful landing, a restart and a crash have
\* written the outcome fields in turn.
C35_Witness ==
    /\ last.op = "frame"
    /\ last.touched
    /\ game.level = 2
    /\ attempt.startLevel = 2
    /\ game.gameOver
    /\ game.crashed
    /\ game.message = "Crash!"

----------------------------------------------------------------------------
(* The thruster flags after the end of an attempt, checked under Spec.     *)

\* C36: once the game is over no step turns a thruster flag on: keydown and
\* pointerdown leave the lander as it is, while keyup and pointerup still
\* turn the flag of their thruster off; a flag can be set again only after
\* restartGame has cleared gameOver.
C36_NoStartAfterGameOver ==
    [][game.gameOver =>
         /\ \A t \in Thrusters : Flag(lander', t) => Flag(lander, t)
         /\ (last'.op = "keydown" \/ last'.op = "pointerdown") =>
                lander' = lander
         /\ (last'.op = "keyup" \/ last'.op = "pointerup") =>
                /\ ~Flag(lander', last'.arg)
                /\ \A t \in Thrusters \ {last'.arg} :
                       Flag(lander', t) = Flag(lander, t)
      ]_vars

\* After a touchdown with fuel left, a key was pressed and its thruster did
\* not start.
C36_Witness ==
    /\ game.gameOver
    /\ last.op = "keydown"
    /\ last.arg \in env.keys
    /\ ~Flag(lander, last.arg)
    /\ lander.fuel > 0

\* After a touchdown a key that had been held through it was released, and
\* its thruster, on until then, is off.
C36_ReleasedAfterGameOver ==
    /\ game.gameOver
    /\ last.op = "keyup"
    /\ last.fired = 1
    /\ ~lander.upThruster /\ ~lander.leftThruster /\ ~lander.rightThruster
    /\ lander.fuel > 0

----------------------------------------------------------------------------
(* The page before the first restartGame, checked under Spec.              *)

\* C37: before the first restartGame call no frame and no thruster input
\* changes the lander or the game: the lander has fuel 0, so no start call
\* sets a flag, and updatePhysics returns without updating.
C37_InertBeforeStart ==
    [][(~game.gameStarted /\ last'.op # "restart") =>
         /\ lander' = lander
         /\ game' = game
         /\ lander'.fuel = 0
         /\ ~lander'.upThruster /\ ~lander'.leftThruster
         /\ ~lander'.rightThruster
      ]_vars

\* Before the first restart a frame has run and two inputs have arrived, a
\* key is held, and the lander and the game are as their constructors left
\* them.
C37_Witness ==
    /\ ~game.gameStarted
    /\ env.lastTime = 1
    /\ attempt.events = 2
    /\ env.keys # {}
    /\ last.op \in {"keydown", "pointerdown", "frame"}
    /\ lander = NewLander(maxRange)
    /\ game = NewGame

----------------------------------------------------------------------------
(* The hidden page and the frame time, checked under Spec.                 *)

\* C38: when the page becomes hidden all three thruster flags are cleared;
\* for as long as it stays hidden no frame advances the simulation; and the
\* dt of every frame is between 0 and 0.1 s inclusive, however long the gap
\* since the last frame.
C38_HiddenAndCappedDt ==
    [][/\ last'.op = "hidden" =>
              /\ env'.paused
              /\ ~lander'.upThruster /\ ~lander'.leftThruster
              /\ ~lander'.rightThruster
       /\ (env.paused /\ last'.op = "frame") =>
              /\ lander' = lander
              /\ game' = game
              /\ attempt'.ticks = attempt.ticks
       /\ last'.op = "frame" => (last'.dt >= 0 /\ last'.dt <= 1)
      ]_vars

\* In the middle of an attempt the page is hidden and a frame has come: the
\* key pressed at the start is still held, its thruster is off with fuel
\* left, and the attempt is where the last visible frame left it.
C38_Witness ==
    /\ last.op = "frame"
    /\ last.dt = 1
    /\ env.paused
    /\ game.gameStarted /\ ~game.gameOver
    /\ attempt.ticks > 0
    /\ env.keys # {}
    /\ ~lander.upThruster /\ ~lander.leftThruster /\ ~lander.rightThruster
    /\ lander.fuel > 0

----------------------------------------------------------------------------
(* The safe zone against the terrain samples, checked under TerrainSpec.   *)

\* Positions across the safe zone: its two ends, the millimetre next to
\* each, and every 10 cm in between
PadPositions(zone) ==
    {zone.startRange, zone.startRange + 1, zone.endRange - 1, zone.endRange}
    \cup {zone.startRange + 100 * k : k \in 1..99}

\* C39: once terrain is generated, for every horizontalPosition in
\* [safeZone.startRange, safeZone.endRange] the terrain height sampled at the
\* corresponding pixel X equals safeZone.height; the zone is exactly one
\* segment wide (endRange - startRange = maxRange / numSegments) and lies
\* strictly inside (0, maxRange).
C39_PadMatchesTerrain ==
    Len(game.terrainPoints) > 0 =>
        LET zone == game.safeZone
            numSegments == Len(game.terrainPoints) - 1
        IN /\ \A pos \in PadPositions(zone) :
                  LET xPix == RoundDiv(pos * canvasWidth, 100)
                  IN /\ pos >= zone.startRange /\ pos <= zone.endRange
                     /\ heightNorm(game.terrainPoints, xPix) = zone.height
                     /\ getTerrainYPixel(game, xPix) =
                            canvasHeight * 1000
                            - RoundDiv(zone.height * canvasHeight, 100)
           /\ zone.endRange - zone.startRange = 100000 \div numSegments
           /\ zone.startRange > 0
           /\ zone.endRange < 100000

\* The pad is the segment from 80 m to 90 m, the samples on both sides of it
\* differ from its height, and getTerrainYPixel, called at the pixel of its
\* right end, has returned the pixel of its height.
C39_Witness ==
    /\ last.op = "getTerrainYPixel"
    /\ game.safeZone.startRange = 80000
    /\ game.safeZone.endRange = 90000
    /\ last.x = 324000
    /\ last.result = canvasHeight * 1000
                     - RoundDiv(game.safeZone.height * canvasHeight, 100)
    /\ game.terrainPoints[8] # game.safeZone.height
    /\ game.terrainPoints[11] # game.safeZone.height

====
